---- MODULE Spec2Model ----
(***************************************************************************)
(* Execution-provider layer of ort and the build script of ort-sys:        *)
(*   Spec          the registration dispatcher, apply_execution_providers  *)
(*   LiveSpec      the same, with the pass running to its return           *)
(*   ProbeSpec     the availability probe, ExecutionProvider::is_available *)
(*   OptionsSpec   ExecutionProviderOptions: set and to_ffi                *)
(*   BuilderSpec   OneDNNExecutionProvider / ExecutionProviderDispatch     *)
(*   RegisterSpec  OneDNNExecutionProvider::register                       *)
(*   BuildSpec     ort-sys/build.rs                                        *)
(* Each specification runs one of them and leaves the others idle.         *)
(*                                                                         *)
(* Strings are sequences of text fragments, concatenated with \o the way   *)
(* format! concatenates its pieces.                                        *)
(***************************************************************************)
EXTENDS Integers, Sequences, FiniteSets, TLC

VARIABLES
    iter,                 \* the lazy producer handed to apply_execution_providers
    execution_providers,  \* the Vec collected from it
    pc,                   \* "start", "loop" or "done" ("idle": no pass)
    idx,                  \* position of the next instance of the for loop
    fallback_to_cpu,      \* the flag of mod.rs:239
    log,                  \* tracing records, in order
    calls,                \* positions register was invoked on, in order
    outcome,              \* what each of those register calls returned
    registered,           \* providers enabled on the session builder, in order
    result,               \* what apply_execution_providers returned
    self_ep,              \* the provider is_available is called on
    native,               \* what GetAvailableProviders will answer
    ppc,                  \* "start", "scan" or "done" ("idle": no probe)
    providers,            \* "null" or "array": the out pointer
    num_providers,        \* the out count
    i,                    \* loop variable of is_available
    reads,                \* indices of the entries read, in order
    releases,             \* number of ReleaseAvailableProviders calls
    released_at,          \* for each ReleaseAvailableProviders call, the entries read before it
    presult,              \* what is_available returned
    bag,                  \* ExecutionProviderOptions: the HashMap<CString, CString>
    sets,                 \* the set calls that returned, in order
    last_call,            \* arguments of the latest set call, <<>> before the first
    ffi,                  \* <<>>, or the one ExecutionProviderOptionsFFI taken of the bag
    opc,                  \* "live" or "panicked" ("idle": no bag in use)
    ep,                   \* the OneDNNExecutionProvider being configured
    disp,                 \* <<>>, or the ExecutionProviderDispatch built from it
    bcalls,               \* builder calls made on the dispatch, in order
    cpc,                  \* "provider" or "dispatch" ("idle": nothing is built)
    features,             \* Cargo features the crate is compiled with
    symbol_found,         \* whether the loaded library exports the Dnnl entry point
    status,               \* the OrtStatusPtr the entry point returns when called
    r_ep,                 \* the provider register is called on
    fcalls,               \* foreign calls made by register, in order
    rresult,              \* what register returned
    rpc,                  \* "start", "resolved" or "done" ("idle": no register call)
    docs_rs,              \* whether DOCS_RS is set
    bfeatures,            \* Cargo features of ort-sys the build script sees
    lib_location,         \* whether ORT_LIB_LOCATION is set
    target,               \* TARGET
    layout,               \* what the directory ORT_LIB_LOCATION names holds
    cache_ok,             \* whether the cache directory can be created
    lib_dir_exists,       \* whether the extracted library directory exists
    server,               \* what the download URL serves
    buf,                  \* <<>>, or the downloaded archive
    emitted,              \* lines printed for cargo, in order
    events,               \* fetch, verify, extract and copy steps, in order
    link,                 \* the argument of real_main
    kpc                   \* position of the build script ("idle": not running)

dvars == <<iter, execution_providers, pc, idx, fallback_to_cpu, log, calls, outcome, registered, result>>
pvars == <<self_ep, native, ppc, providers, num_providers, i, reads, releases, released_at, presult>>
ovars == <<bag, sets, last_call, ffi, opc>>
cvars == <<ep, disp, bcalls, cpc>>
rvars == <<features, symbol_found, status, r_ep, fcalls, rresult, rpc>>
kvars == <<docs_rs, bfeatures, lib_location, target, layout, cache_ok, lib_dir_exists, server, buf,
           emitted, events, link, kpc>>
vars == <<dvars, pvars, ovars, cvars, rvars, kvars>>

----------------------------------------------------------------------------
\* Bounds

\* longest provider sequence handed to the dispatcher
MaxEps == 3
\* longest array GetAvailableProviders reports
MaxProviders == 3

----------------------------------------------------------------------------
\* Providers, strings, errors

Kinds == {"OneDNN", "CoreML"}

as_str(kind) ==
    IF kind = "OneDNN" THEN <<"Dnnl", "ExecutionProvider">>
    ELSE <<kind, "ExecutionProvider">>

\* the build targets a platform that is neither macOS nor iOS
supported_by_platform(kind) ==
    IF kind = "CoreML" THEN FALSE ELSE TRUE

NotEnabledSuffix ==
    <<"was not registered because its corresponding Cargo feature", "is not enabled.">>

ends_with(s, suffix) ==
    /\ Len(suffix) <= Len(s)
    /\ SubSeq(s, Len(s) - Len(suffix) + 1, Len(s)) = suffix

Pending == [tag |-> "pending", msg |-> <<>>]
Ok == [tag |-> "ok", msg |-> <<>>]
OkBool(b) == [tag |-> "ok", msg |-> <<>>, val |-> b]
Err(m) == [tag |-> "err", msg |-> m]

\* Error::ExecutionProviderNotRegistered(self.as_str())
NotRegisteredMsg(kind) ==
    <<"The '">> \o as_str(kind) \o <<"' execution provider">> \o NotEnabledSuffix

\* the error get_ep_register returns when the symbol is missing
ep_symbol(kind) ==
    IF kind = "OneDNN" THEN "OrtSessionOptionsAppendExecutionProvider_Dnnl"
    ELSE "OrtSessionOptionsAppendExecutionProvider_CoreML"

SymbolMsg(kind) ==
    <<"Error attempting to load symbol '", ep_symbol(kind),
      "' from dynamic library: ", "undefined symbol">>

\* a non-success status of the append entry point
StatusMsg(kind) == <<"Failed to create ", kind, " provider">>

\* a status message that quotes the not-enabled text and goes on
QuotingMsg(kind) == NotRegisteredMsg(kind) \o <<" (reported by the runtime)">>

RegisterOutcomes(ex) ==
    {Ok, Err(NotRegisteredMsg(ex.inner)), Err(SymbolMsg(ex.inner)),
     Err(StatusMsg(ex.inner)), Err(QuotingMsg(ex.inner))}

ExecutionProviderDispatch == [inner : Kinds, error_on_failure : BOOLEAN]

RECURSIVE SeqsUpTo(_, _)
SeqsUpTo(S, n) ==
    IF n = 0 THEN {<<>>}
    ELSE LET shorter == SeqsUpTo(S, n - 1)
         IN shorter \cup {Append(s, x) : s \in {t \in shorter : Len(t) = n - 1}, x \in S}

----------------------------------------------------------------------------
\* apply_execution_providers

Rec(level, at, msg) == [level |-> level, at |-> at, msg |-> msg]

FallbackMsg == <<"No execution providers registered successfully. Falling back to CPU.">>

SuccessLog(ex, at) ==
    Rec("info", at, <<"Successfully registered '">> \o as_str(ex.inner) \o <<"'">>)

FailureLog_swapped(ex, e, at) ==
    IF ends_with(e.msg, NotEnabledSuffix)
    THEN IF supported_by_platform(ex.inner)
         THEN Rec("debug", at, e.msg \o <<" (note: additionally, '">> \o as_str(ex.inner)
                                     \o <<"' is not supported on this platform)">>)
         ELSE Rec("warn", at, e.msg)
    ELSE Rec("error", at, <<"An error occurred when attempting to register '">>
                            \o as_str(ex.inner) \o <<"': ">> \o e.msg)

FailureLog(ex, e, at) ==
    IF ends_with(e.msg, NotEnabledSuffix)
    THEN IF supported_by_platform(ex.inner)
         THEN Rec("warn", at, e.msg)
         ELSE Rec("debug", at, e.msg \o <<" (note: additionally, '">> \o as_str(ex.inner)
                                     \o <<"' is not supported on this platform)">>)
    ELSE Rec("error", at, <<"An error occurred when attempting to register '">>
                            \o as_str(ex.inner) \o <<"': ">> \o e.msg)

SeedFallback_never(eps) == FALSE

SeedFallback_always(eps) == TRUE

\* !execution_providers.is_empty()
SeedFallback(eps) == eps # <<>>

DInit ==
    /\ iter \in SeqsUpTo(ExecutionProviderDispatch, MaxEps)
    /\ execution_providers = <<>>
    /\ pc = "start"
    /\ idx = 1
    /\ fallback_to_cpu = FALSE
    /\ log = <<>>
    /\ calls = <<>>
    /\ outcome = <<>>
    /\ registered = <<>>
    /\ result = Pending

Collect_first_only ==
    /\ pc = "start"
    /\ execution_providers' = IF iter = <<>> THEN <<>> ELSE <<Head(iter)>>
    /\ iter' = IF iter = <<>> THEN <<>> ELSE Tail(iter)
    /\ fallback_to_cpu' = SeedFallback(iter)
    /\ pc' = "loop"
    /\ UNCHANGED <<idx, log, calls, outcome, registered, result>>

\* let execution_providers: Vec<_> = execution_providers.collect();
\* let mut fallback_to_cpu = !execution_providers.is_empty();
Collect ==
    /\ pc = "start"
    /\ execution_providers' = iter
    /\ iter' = <<>>
    /\ fallback_to_cpu' = SeedFallback(iter)
    /\ pc' = "loop"
    /\ UNCHANGED <<idx, log, calls, outcome, registered, result>>

RegisterOk_keeps_flag ==
    /\ pc = "loop"
    /\ idx <= Len(execution_providers)
    /\ LET ex == execution_providers[idx]
       IN /\ Ok \in RegisterOutcomes(ex)
          /\ calls' = Append(calls, idx)
          /\ outcome' = Append(outcome, Ok)
          /\ registered' = Append(registered, ex.inner)
          /\ log' = Append(log, SuccessLog(ex, idx))
    /\ idx' = idx + 1
    /\ UNCHANGED <<iter, execution_providers, pc, result, fallback_to_cpu>>

\* one iteration of the loop in which register returns Ok
RegisterOk ==
    /\ pc = "loop"
    /\ idx <= Len(execution_providers)
    /\ LET ex == execution_providers[idx]
       IN /\ Ok \in RegisterOutcomes(ex)
          /\ calls' = Append(calls, idx)
          /\ outcome' = Append(outcome, Ok)
          /\ registered' = Append(registered, ex.inner)
          /\ log' = Append(log, SuccessLog(ex, idx))
    /\ fallback_to_cpu' = FALSE
    /\ idx' = idx + 1
    /\ UNCHANGED <<iter, execution_providers, pc, result>>

RegisterFailFast_continues ==
    /\ pc = "loop"
    /\ idx <= Len(execution_providers)
    /\ LET ex == execution_providers[idx]
       IN /\ ex.error_on_failure
          /\ \E e \in RegisterOutcomes(ex) :
                /\ e.tag = "err"
                /\ calls' = Append(calls, idx)
                /\ outcome' = Append(outcome, e)
                /\ IF idx < Len(execution_providers)
                   THEN /\ idx' = idx + 1
                        /\ UNCHANGED <<pc, result>>
                   ELSE /\ result' = e
                        /\ pc' = "done"
                        /\ UNCHANGED idx
    /\ UNCHANGED <<iter, execution_providers, fallback_to_cpu, log, registered>>

RegisterFailFast_rolls_back ==
    /\ pc = "loop"
    /\ idx <= Len(execution_providers)
    /\ LET ex == execution_providers[idx]
       IN /\ ex.error_on_failure
          /\ \E e \in RegisterOutcomes(ex) :
                /\ e.tag = "err"
                /\ calls' = Append(calls, idx)
                /\ outcome' = Append(outcome, e)
                /\ result' = e
    /\ registered' = <<>>
    /\ pc' = "done"
    /\ UNCHANGED <<iter, execution_providers, idx, fallback_to_cpu, log>>

\* one iteration in which register fails and error_on_failure is set
RegisterFailFast ==
    /\ pc = "loop"
    /\ idx <= Len(execution_providers)
    /\ LET ex == execution_providers[idx]
       IN /\ ex.error_on_failure
          /\ \E e \in RegisterOutcomes(ex) :
                /\ e.tag = "err"
                /\ calls' = Append(calls, idx)
                /\ outcome' = Append(outcome, e)
                /\ result' = e
    /\ pc' = "done"
    /\ UNCHANGED <<iter, execution_providers, idx, fallback_to_cpu, log, registered>>

RegisterFailLogged_returns ==
    /\ pc = "loop"
    /\ idx <= Len(execution_providers)
    /\ LET ex == execution_providers[idx]
       IN /\ ~ex.error_on_failure
          /\ \E e \in RegisterOutcomes(ex) :
                /\ e.tag = "err"
                /\ calls' = Append(calls, idx)
                /\ outcome' = Append(outcome, e)
                /\ log' = Append(log, FailureLog(ex, e, idx))
                /\ IF ends_with(e.msg, NotEnabledSuffix)
                   THEN /\ idx' = idx + 1
                        /\ UNCHANGED <<pc, result>>
                   ELSE /\ result' = e
                        /\ pc' = "done"
                        /\ UNCHANGED idx
    /\ UNCHANGED <<iter, execution_providers, fallback_to_cpu, registered>>

RegisterFailLogged_sets_flag ==
    /\ pc = "loop"
    /\ idx <= Len(execution_providers)
    /\ LET ex == execution_providers[idx]
       IN /\ ~ex.error_on_failure
          /\ \E e \in RegisterOutcomes(ex) :
                /\ e.tag = "err"
                /\ calls' = Append(calls, idx)
                /\ outcome' = Append(outcome, e)
                /\ log' = Append(log, FailureLog(ex, e, idx))
    /\ fallback_to_cpu' = TRUE
    /\ idx' = idx + 1
    /\ UNCHANGED <<iter, execution_providers, pc, registered, result>>

\* one iteration in which register fails and error_on_failure is not set
RegisterFailLogged ==
    /\ pc = "loop"
    /\ idx <= Len(execution_providers)
    /\ LET ex == execution_providers[idx]
       IN /\ ~ex.error_on_failure
          /\ \E e \in RegisterOutcomes(ex) :
                /\ e.tag = "err"
                /\ calls' = Append(calls, idx)
                /\ outcome' = Append(outcome, e)
                /\ log' = Append(log, FailureLog(ex, e, idx))
    /\ idx' = idx + 1
    /\ UNCHANGED <<iter, execution_providers, pc, fallback_to_cpu, registered, result>>

Finish_silent ==
    /\ pc = "loop"
    /\ idx > Len(execution_providers)
    /\ result' = Ok
    /\ pc' = "done"
    /\ UNCHANGED <<iter, execution_providers, idx, fallback_to_cpu, log, calls, outcome, registered>>

Finish_registers_cpu ==
    /\ pc = "loop"
    /\ idx > Len(execution_providers)
    /\ log' = IF fallback_to_cpu THEN Append(log, Rec("warn", 0, FallbackMsg)) ELSE log
    /\ registered' = IF fallback_to_cpu THEN Append(registered, "CPU") ELSE registered
    /\ result' = Ok
    /\ pc' = "done"
    /\ UNCHANGED <<iter, execution_providers, idx, fallback_to_cpu, calls, outcome>>

Finish_before_end ==
    /\ pc = "loop"
    /\ idx > 1 \/ execution_providers = <<>>
    /\ log' = IF fallback_to_cpu THEN Append(log, Rec("warn", 0, FallbackMsg)) ELSE log
    /\ result' = Ok
    /\ pc' = "done"
    /\ UNCHANGED <<iter, execution_providers, idx, fallback_to_cpu, calls, outcome, registered>>

\* after the loop: the fallback warning and Ok(())
Finish ==
    /\ pc = "loop"
    /\ idx > Len(execution_providers)
    /\ log' = IF fallback_to_cpu THEN Append(log, Rec("warn", 0, FallbackMsg)) ELSE log
    /\ result' = Ok
    /\ pc' = "done"
    /\ UNCHANGED <<iter, execution_providers, idx, fallback_to_cpu, calls, outcome, registered>>

----------------------------------------------------------------------------
\* ExecutionProvider::is_available

BadByte == "0xFF"

\* CStr::to_str: fails on a byte sequence that is not UTF-8
char_p_to_string(p) ==
    IF \E k \in 1..Len(p) : p[k] = BadByte
    THEN Err(<<"invalid utf-8 sequence">>)
    ELSE [tag |-> "ok", msg |-> <<>>, val |-> p]

\* the C strings the native engine may report
NativeEntries ==
    {as_str("OneDNN"), as_str("CoreML"), <<"CPU", "ExecutionProvider">>,
     <<"Dnnl">>, <<"Dnnl", BadByte>>}

\* answers of GetAvailableProviders: a failing status, a success with a null
\* array (whatever count), or a success with an array and its length
NativeAnswers ==
    {[ok |-> FALSE, null |-> TRUE, arr |-> <<>>, count |-> 0]}
    \cup {[ok |-> TRUE, null |-> TRUE, arr |-> <<>>, count |-> n] : n \in 0..MaxProviders}
    \cup {[ok |-> TRUE, null |-> FALSE, arr |-> a, count |-> Len(a)] :
            a \in SeqsUpTo(NativeEntries, MaxProviders)}

EngineErrorMsg == <<"GetAvailableProviders failed">>

str_eq_starts_with(a, b) == Len(b) <= Len(a) /\ SubSeq(a, 1, Len(b)) = b

\* self.as_str() == avail
str_eq(a, b) == a = b

PInit ==
    /\ self_ep \in Kinds
    /\ native \in NativeAnswers
    /\ ppc = "start"
    /\ providers = "null"
    /\ num_providers = 0
    /\ i = 0
    /\ reads = <<>>
    /\ releases = 0
    /\ released_at = <<>>
    /\ presult = Pending

\* GetAvailableProviders(&mut providers, &mut num_providers)? fails
FillFails ==
    /\ ppc = "start"
    /\ ~native.ok
    /\ presult' = Err(EngineErrorMsg)
    /\ ppc' = "done"
    /\ UNCHANGED <<self_ep, native, providers, num_providers, i, reads, releases, released_at>>

FillNull_errs ==
    /\ ppc = "start"
    /\ native.ok
    /\ native.null
    /\ num_providers' = native.count
    /\ presult' = Err(EngineErrorMsg)
    /\ ppc' = "done"
    /\ UNCHANGED <<self_ep, native, providers, i, reads, releases, released_at>>

\* the fill succeeds and leaves providers null: return Ok(false)
FillNull ==
    /\ ppc = "start"
    /\ native.ok
    /\ native.null
    /\ num_providers' = native.count
    /\ presult' = OkBool(FALSE)
    /\ ppc' = "done"
    /\ UNCHANGED <<self_ep, native, providers, i, reads, releases, released_at>>

\* the fill succeeds and yields an array
FillArray ==
    /\ ppc = "start"
    /\ native.ok
    /\ ~native.null
    /\ providers' = "array"
    /\ num_providers' = native.count
    /\ i' = 0
    /\ ppc' = "scan"
    /\ UNCHANGED <<self_ep, native, reads, releases, released_at, presult>>

ScanExtractFails_leaks ==
    /\ ppc = "scan"
    /\ i < num_providers
    /\ char_p_to_string(native.arr[i + 1]).tag = "err"
    /\ reads' = Append(reads, i)
    /\ presult' = char_p_to_string(native.arr[i + 1])
    /\ ppc' = "done"
    /\ UNCHANGED <<self_ep, native, providers, num_providers, i, releases, released_at>>

ScanExtractFails_skips ==
    /\ ppc = "scan"
    /\ i < num_providers
    /\ char_p_to_string(native.arr[i + 1]).tag = "err"
    /\ reads' = Append(reads, i)
    /\ i' = i + 1
    /\ UNCHANGED <<self_ep, native, ppc, providers, num_providers, releases, released_at, presult>>

\* an entry is not a string: release and return the error
ScanExtractFails ==
    /\ ppc = "scan"
    /\ i < num_providers
    /\ char_p_to_string(native.arr[i + 1]).tag = "err"
    /\ reads' = Append(reads, i)
    /\ releases' = releases + 1
    /\ released_at' = Append(released_at, Len(reads) + 1)
    /\ presult' = char_p_to_string(native.arr[i + 1])
    /\ ppc' = "done"
    /\ UNCHANGED <<self_ep, native, providers, num_providers, i>>

\* an entry equals the identifier: release and return Ok(true)
ScanMatch ==
    /\ ppc = "scan"
    /\ i < num_providers
    /\ LET avail == char_p_to_string(native.arr[i + 1])
       IN /\ avail.tag = "ok"
          /\ str_eq(as_str(self_ep), avail.val)
    /\ reads' = Append(reads, i)
    /\ releases' = releases + 1
    /\ released_at' = Append(released_at, Len(reads) + 1)
    /\ presult' = OkBool(TRUE)
    /\ ppc' = "done"
    /\ UNCHANGED <<self_ep, native, providers, num_providers, i>>

\* an entry is another string: next entry
ScanNext ==
    /\ ppc = "scan"
    /\ i < num_providers
    /\ LET avail == char_p_to_string(native.arr[i + 1])
       IN /\ avail.tag = "ok"
          /\ ~str_eq(as_str(self_ep), avail.val)
    /\ reads' = Append(reads, i)
    /\ i' = i + 1
    /\ UNCHANGED <<self_ep, native, ppc, providers, num_providers, releases, released_at, presult>>

\* after the loop: release and return Ok(false)
ScanEnd ==
    /\ ppc = "scan"
    /\ i >= num_providers
    /\ releases' = releases + 1
    /\ released_at' = Append(released_at, Len(reads))
    /\ presult' = OkBool(FALSE)
    /\ ppc' = "done"
    /\ UNCHANGED <<self_ep, native, providers, num_providers, i, reads>>

----------------------------------------------------------------------------
\* ExecutionProviderOptions

\* most set calls made on one bag
MaxSets == 3

Nul == "0x00"

\* byte strings handed to set
OptionKeys == {<<"device_id">>, <<"arena_extend_strategy">>, <<"device", Nul, "id">>}
OptionValues == {<<"0">>, <<"1">>, <<"1", Nul>>}

\* CString::new: fails on an interior nul byte
CString_new(bytes) ==
    IF \E k \in 1..Len(bytes) : bytes[k] = Nul
    THEN Err(<<"nul byte found in provided data">>)
    ELSE [tag |-> "ok", msg |-> <<>>, val |-> bytes]

HashMap_insert_keep_first(m, k, v) ==
    [x \in DOMAIN m \cup {k} |-> IF x \in DOMAIN m THEN m[x] ELSE v]

\* HashMap::insert: the value of an existing key is replaced
HashMap_insert(m, k, v) ==
    [x \in DOMAIN m \cup {k} |-> IF x = k THEN v ELSE m[x]]

EmptyMap == [x \in {} |-> <<>>]

\* the orders in which a HashMap may iterate over its keys
IterOrders(m) ==
    {o \in [1..Cardinality(DOMAIN m) -> DOMAIN m] : \A a, b \in DOMAIN o : a # b => o[a] # o[b]}

to_ffi_values_reversed(m, order) ==
    [key_ptrs |-> order,
     value_ptrs |-> [j \in DOMAIN order |-> m[order[Len(order) + 1 - j]]]]

\* to_ffi: pointers are modelled by the strings they point to
to_ffi(m, order) ==
    [key_ptrs |-> order, value_ptrs |-> [j \in DOMAIN order |-> m[order[j]]]]

\* ExecutionProviderOptionsFFI::len
ffi_len(f) == Len(f.key_ptrs)

OInit ==
    /\ bag = EmptyMap
    /\ sets = <<>>
    /\ last_call = <<>>
    /\ ffi = <<>>
    /\ opc = "live"

OIdle ==
    /\ bag = EmptyMap
    /\ sets = <<>>
    /\ last_call = <<>>
    /\ ffi = <<>>
    /\ opc = "idle"

SetPanics_truncates ==
    /\ opc = "live"
    /\ Len(sets) < MaxSets
    /\ \E key \in OptionKeys, value \in OptionValues :
          /\ CString_new(key).tag = "err" \/ CString_new(value).tag = "err"
          /\ last_call' = <<[key |-> key, value |-> value]>>
          /\ bag' = HashMap_insert(bag, <<Head(key)>>, <<Head(value)>>)
          /\ sets' = Append(sets, [key |-> <<Head(key)>>, value |-> <<Head(value)>>])
    /\ ffi' = <<>>
    /\ UNCHANGED opc

\* set with a nul byte in the key or the value: expect() panics
SetPanics ==
    /\ opc = "live"
    /\ Len(sets) < MaxSets
    /\ \E key \in OptionKeys, value \in OptionValues :
          /\ CString_new(key).tag = "err" \/ CString_new(value).tag = "err"
          /\ last_call' = <<[key |-> key, value |-> value]>>
    /\ opc' = "panicked"
    /\ UNCHANGED <<bag, sets, ffi>>

\* set with two valid strings
SetOk ==
    /\ opc = "live"
    /\ Len(sets) < MaxSets
    /\ \E key \in OptionKeys, value \in OptionValues :
          LET k == CString_new(key)
              v == CString_new(value)
          IN /\ k.tag = "ok"
             /\ v.tag = "ok"
             /\ last_call' = <<[key |-> key, value |-> value]>>
             /\ bag' = HashMap_insert(bag, k.val, v.val)
             /\ sets' = Append(sets, [key |-> k.val, value |-> v.val])
    /\ ffi' = <<>>
    /\ UNCHANGED opc

\* to_ffi on the bag as it is
ToFfi ==
    /\ opc = "live"
    /\ ffi = <<>>
    /\ \E order \in IterOrders(bag) : ffi' = <<to_ffi(bag, order)>>
    /\ UNCHANGED <<bag, sets, last_call, opc>>

----------------------------------------------------------------------------
\* OneDNNExecutionProvider and ExecutionProviderDispatch builders

\* most builder calls made on one dispatch
MaxBuilderCalls == 5

\* #[derive(Default)]: use_arena = false
OneDNN_default == [kind |-> "OneDNN", use_arena |-> FALSE]

with_arena_allocator(p) == [p EXCEPT !.use_arena = TRUE]

\* ExecutionProviderDispatch::new
Dispatch_new(p) == [inner |-> p, error_on_failure |-> FALSE]

Dispatch_fail_silently_toggles(d) == [d EXCEPT !.error_on_failure = ~d.error_on_failure]

\* ExecutionProviderDispatch::fail_silently
Dispatch_fail_silently(d) == [d EXCEPT !.error_on_failure = FALSE]

\* ExecutionProviderDispatch::error_on_failure
Dispatch_error_on_failure(d) == [d EXCEPT !.error_on_failure = TRUE]

CInit ==
    /\ ep = OneDNN_default
    /\ disp = <<>>
    /\ bcalls = <<>>
    /\ cpc = "provider"

CIdle ==
    /\ ep = OneDNN_default
    /\ disp = <<>>
    /\ bcalls = <<>>
    /\ cpc = "idle"

WithArenaAllocator ==
    /\ cpc = "provider"
    /\ ep' = with_arena_allocator(ep)
    /\ UNCHANGED <<disp, bcalls, cpc>>

\* OneDNNExecutionProvider::build
Build ==
    /\ cpc = "provider"
    /\ disp' = <<Dispatch_new(ep)>>
    /\ cpc' = "dispatch"
    /\ UNCHANGED <<ep, bcalls>>

ErrorOnFailure ==
    /\ cpc = "dispatch"
    /\ Len(bcalls) < MaxBuilderCalls
    /\ disp' = <<Dispatch_error_on_failure(disp[1])>>
    /\ bcalls' = Append(bcalls, "error_on_failure")
    /\ UNCHANGED <<ep, cpc>>

FailSilently ==
    /\ cpc = "dispatch"
    /\ Len(bcalls) < MaxBuilderCalls
    /\ disp' = <<Dispatch_fail_silently(disp[1])>>
    /\ bcalls' = Append(bcalls, "fail_silently")
    /\ UNCHANGED <<ep, cpc>>

----------------------------------------------------------------------------
\* OneDNNExecutionProvider::register

CargoFeatures == {"load-dynamic", "onednn"}

\* an OrtStatusPtr: null on success, else a status carrying a message
NullStatus == [null |-> TRUE, msg |-> <<>>]
Statuses ==
    {NullStatus,
     [null |-> FALSE, msg |-> <<"FAIL: ", "oneDNN is not available">>],
     [null |-> FALSE, msg |-> <<"INVALID_ARGUMENT: ", "use_arena">>],
     [null |-> FALSE, msg |-> <<"NOT_IMPLEMENTED: ", "Dnnl">>]}

\* an Error of the crate: the variant and what it carries
ErrorOf(variant, msg) == [tag |-> "err", variant |-> variant, msg |-> msg]

\* crate::error::status_to_result: null is Ok, a status becomes its message
status_to_result(st) ==
    IF st.null THEN Ok ELSE ErrorOf("Status", st.msg)

map_err_forgotten(r) == r

\* .map_err(Error::ExecutionProvider)
map_err_ExecutionProvider(r) ==
    IF r.tag = "err" THEN ErrorOf("ExecutionProvider", r.msg) ELSE r

\* bool into c_int
c_int(b) == IF b THEN 1 ELSE 0

RInit ==
    /\ features \in SUBSET CargoFeatures
    /\ symbol_found \in BOOLEAN
    /\ status \in Statuses
    /\ r_ep \in {OneDNN_default, with_arena_allocator(OneDNN_default)}
    /\ fcalls = <<>>
    /\ rresult = Pending
    /\ rpc = "start"

RIdle ==
    /\ features = {}
    /\ symbol_found = FALSE
    /\ status = NullStatus
    /\ r_ep = OneDNN_default
    /\ fcalls = <<>>
    /\ rresult = Pending
    /\ rpc = "idle"

\* neither feature: the cfg block is compiled out
RegNotEnabled ==
    /\ rpc = "start"
    /\ features \cap {"load-dynamic", "onednn"} = {}
    /\ rresult' = ErrorOf("ExecutionProviderNotRegistered", as_str(r_ep.kind))
    /\ rpc' = "done"
    /\ UNCHANGED <<features, symbol_found, status, r_ep, fcalls>>

\* get_ep_register under load-dynamic: the symbol is missing
RegResolveFails ==
    /\ rpc = "start"
    /\ "load-dynamic" \in features
    /\ ~symbol_found
    /\ rresult' = ErrorOf("Msg", SymbolMsg(r_ep.kind))
    /\ rpc' = "done"
    /\ UNCHANGED <<features, symbol_found, status, r_ep, fcalls>>

\* get_ep_register under load-dynamic: the symbol is found
RegResolve ==
    /\ rpc = "start"
    /\ "load-dynamic" \in features
    /\ symbol_found
    /\ rpc' = "resolved"
    /\ UNCHANGED <<features, symbol_found, status, r_ep, fcalls, rresult>>

\* the call of the entry point, resolved at run time or linked
RegCall ==
    /\ \/ rpc = "resolved"
       \/ rpc = "start" /\ "load-dynamic" \notin features /\ "onednn" \in features
    /\ fcalls' = Append(fcalls, [symbol |-> ep_symbol(r_ep.kind), use_arena |-> c_int(r_ep.use_arena)])
    /\ rresult' = map_err_ExecutionProvider(status_to_result(status))
    /\ rpc' = "done"
    /\ UNCHANGED <<features, symbol_found, status, r_ep>>

----------------------------------------------------------------------------
\* ort-sys/build.rs

BuildFeatures == {"load-dynamic", "download-binaries", "copy-dylibs"}

Targets ==
    {"x86_64-unknown-linux-gnu", "aarch64-apple-darwin", "x86_64-pc-windows-msvc",
     "riscv64gc-unknown-linux-gnu"}

\* CARGO_CFG_TARGET_OS of the target
target_os(t) ==
    IF t = "aarch64-apple-darwin" THEN "macos"
    ELSE IF t = "x86_64-pc-windows-msvc" THEN "windows"
    ELSE "linux"

\* the pinned prebuilt_hash of a target (its leading four hex digits);
\* <<>> for a target without prebuilt binaries; cuda and directml are off
prebuilt_hash(t) ==
    IF t = "aarch64-apple-darwin" THEN <<"9", "3", "9", "1">>
    ELSE IF t = "x86_64-pc-windows-msvc" THEN <<"3", "D", "D", "1">>
    ELSE IF t = "x86_64-unknown-linux-gnu" THEN <<"8", "3", "2", "1">>
    ELSE <<>>

UpperHex == <<"0", "1", "2", "3", "4", "5", "6", "7", "8", "9", "A", "B", "C", "D", "E", "F">>
LowerHex == <<"0", "1", "2", "3", "4", "5", "6", "7", "8", "9", "a", "b", "c", "d", "e", "f">>

nibble(c) ==
    (CHOOSE k \in 1..16 : UpperHex[k] = c \/ LowerHex[k] = c) - 1

\* two hex digits to a byte: nibble(n[0]) << 4 | nibble(n[1])
hex_str_to_bytes(c) ==
    [n \in 1..(Len(c) \div 2) |-> (nibble(c[2 * n - 1]) * 16 + nibble(c[2 * n])) % 256]

\* archives the URL may serve, each with the SHA-256 digest of its bytes
\* (cut to the two leading bytes, as the pinned hashes are)
Archives ==
    {[name |-> "onnxruntime-linux-x64-1.17.0.tgz", digest |-> <<131, 33>>],
     [name |-> "onnxruntime-osx-arm64-1.17.0.tgz", digest |-> <<147, 145>>],
     [name |-> "onnxruntime-win-x64-1.17.0.tgz", digest |-> <<61, 209>>],
     [name |-> "tampered.tgz", digest |-> <<3, 1>>]}

Unreachable == [name |-> "unreachable", digest |-> <<>>]

\* sha2::Sha256::digest(buf)[..] == hex_str_to_bytes(hash)
verify_file(b, hash) == b.digest = hex_str_to_bytes(hash)

Line(directive, arg) == [directive |-> directive, arg |-> arg]

RECURSIVE LinkLibs(_)
LinkLibs(names) ==
    IF names = <<>> THEN <<>>
    ELSE <<Line("rustc-link-lib", Head(names))>> \o LinkLibs(Tail(names))

static_link_prerequisites(os, using_pyke_libs) ==
    IF os = "macos" \/ os = "ios" THEN LinkLibs(<<"c++", "framework=Foundation">>)
    ELSE IF os = "linux" \/ os = "android" THEN LinkLibs(<<"stdc++">>)
    ELSE IF os = "windows" /\ using_pyke_libs
         THEN LinkLibs(<<"dxguid", "DXCORE", "DXGI", "D3D12", "DirectML">>)
         ELSE <<>>

add_search_dir(base) == <<Line("rustc-link-search", base)>>

\* what the ORT_LIB_LOCATION directory may hold: the single static library,
\* a build tree with the split static libraries (complete or not), or neither
Layouts == {"onnxruntime", "split", "split_incomplete", "dynamic"}

SplitLibs ==
    <<"static=onnxruntime_common", "static=onnxruntime_flatbuffers", "static=onnxruntime_framework",
      "static=onnxruntime_graph", "static=onnxruntime_mlas", "static=onnxruntime_optimizer",
      "static=onnxruntime_providers", "static=onnxruntime_session", "static=onnxruntime_util">>

KInit ==
    /\ docs_rs \in BOOLEAN
    /\ bfeatures \in SUBSET BuildFeatures
    /\ lib_location \in BOOLEAN
    /\ target \in Targets
    /\ layout \in Layouts
    /\ cache_ok \in BOOLEAN
    /\ lib_dir_exists \in BOOLEAN
    /\ server \in Archives \cup {Unreachable}
    /\ buf = <<>>
    /\ emitted = <<>>
    /\ events = <<>>
    /\ link = FALSE
    /\ kpc = "main"

KIdle ==
    /\ docs_rs = FALSE
    /\ bfeatures = {}
    /\ lib_location = FALSE
    /\ target = "x86_64-unknown-linux-gnu"
    /\ layout = "dynamic"
    /\ cache_ok = TRUE
    /\ lib_dir_exists = FALSE
    /\ server = Unreachable
    /\ buf = <<>>
    /\ emitted = <<>>
    /\ events = <<>>
    /\ link = FALSE
    /\ kpc = "idle"

KEnv == <<docs_rs, bfeatures, lib_location, target, layout, cache_ok, server>>

\* main: DOCS_RS is set
MainDocsRs ==
    /\ kpc = "main"
    /\ docs_rs
    /\ kpc' = "done"
    /\ UNCHANGED <<KEnv, lib_dir_exists, buf, emitted, events, link>>

\* main: load-dynamic and nothing to download
MainNothing ==
    /\ kpc = "main"
    /\ ~docs_rs
    /\ "load-dynamic" \in bfeatures
    /\ ~("download-binaries" \in bfeatures /\ ~lib_location)
    /\ kpc' = "done"
    /\ UNCHANGED <<KEnv, lib_dir_exists, buf, emitted, events, link>>

\* main calls real_main, which prints the two rerun lines
MainReal ==
    /\ kpc = "main"
    /\ ~docs_rs
    /\ "load-dynamic" \in bfeatures => ("download-binaries" \in bfeatures /\ ~lib_location)
    /\ link' = ("load-dynamic" \notin bfeatures)
    /\ emitted' = emitted \o <<Line("rerun-if-env-changed", "ORT_LIB_LOCATION"),
                               Line("rerun-if-env-changed", "ORT_LIB_PROFILE")>>
    /\ kpc' = "prepare"
    /\ UNCHANGED <<KEnv, lib_dir_exists, buf, events>>

\* the rest of real_main once prepare_libort_dir has returned
real_main_tail(needs_link, lib_dir) ==
    IF link
    THEN (IF needs_link
          THEN <<Line("rustc-link-lib", "onnxruntime")>> \o add_search_dir(lib_dir)
          ELSE <<>>)
         \o static_link_prerequisites(target_os(target), FALSE)
    ELSE <<>>

\* prepare_libort_dir with ORT_LIB_LOCATION set, and the rest of real_main
PrepareSystem ==
    /\ kpc = "prepare"
    /\ lib_location
    /\ layout # "split_incomplete"
    /\ LET found ==
              IF layout = "onnxruntime" THEN LinkLibs(<<"static=onnxruntime">>)
              ELSE IF layout = "split"
                   THEN add_search_dir("ORT_LIB_LOCATION/profile") \o LinkLibs(SplitLibs)
                        \o LinkLibs(<<"static=onnx", "static=onnx_proto", "static=nsync_cpp",
                                      "static=cpuinfo", "static=clog", "static=re2",
                                      "static=absl_base", "static=absl_throw_delegate",
                                      "static=absl_hash", "static=absl_city",
                                      "static=absl_low_level_hash", "static=absl_raw_hash_set">>)
                   ELSE <<>>
           copies == layout = "dynamic" /\ "copy-dylibs" \in bfeatures
       IN /\ emitted' = emitted \o add_search_dir("ORT_LIB_LOCATION") \o found
                          \o (IF copies THEN <<Line("rerun-if-changed", "libonnxruntime")>> ELSE <<>>)
                          \o real_main_tail(layout = "dynamic", "ORT_LIB_LOCATION")
          /\ events' = IF copies THEN Append(events, [op |-> "copy", arg |-> "ORT_LIB_LOCATION"])
                       ELSE events
    /\ kpc' = "done"
    /\ UNCHANGED <<KEnv, lib_dir_exists, buf, link>>

\* a split static library is missing: panic
PrepareSystemPanics ==
    /\ kpc = "prepare"
    /\ lib_location
    /\ layout = "split_incomplete"
    /\ emitted' = emitted \o add_search_dir("ORT_LIB_LOCATION")
                    \o add_search_dir("ORT_LIB_LOCATION/profile")
                    \o LinkLibs(<<"static=onnxruntime_common">>)
    /\ kpc' = "panicked"
    /\ UNCHANGED <<KEnv, lib_dir_exists, buf, events, link>>

\* no ORT_LIB_LOCATION and no download-binaries
PrepareNoBinaries ==
    /\ kpc = "prepare"
    /\ ~lib_location
    /\ "download-binaries" \notin bfeatures
    /\ emitted' = emitted
                    \o LinkLibs(<<"add_ort_library_path_or_enable_feature_download-binaries_see_ort_docs">>)
                    \o real_main_tail(FALSE, "")
    /\ kpc' = "done"
    /\ UNCHANGED <<KEnv, lib_dir_exists, buf, events, link>>

\* the download path: no prebuilt binaries for the target
PrepareNoTarget ==
    /\ kpc = "prepare"
    /\ ~lib_location
    /\ "download-binaries" \in bfeatures
    /\ prebuilt_hash(target) = <<>>
    /\ kpc' = "panicked"
    /\ UNCHANGED <<KEnv, lib_dir_exists, buf, emitted, events, link>>

cache_dir == IF cache_ok THEN "cache/dfbin" ELSE "OUT_DIR"

\* the download path after the library directory is in place:
\* static_link_prerequisites(true), copy_libraries, and the rest of real_main
AfterLibDir ==
    /\ emitted' = emitted \o static_link_prerequisites(target_os(target), TRUE)
                    \o (IF "copy-dylibs" \in bfeatures
                        THEN <<Line("rerun-if-changed", "libonnxruntime")>> ELSE <<>>)
                    \o real_main_tail(TRUE, cache_dir)
    /\ kpc' = "done"

\* the download path: the library directory exists, nothing is fetched
PrepareCached ==
    /\ kpc = "prepare"
    /\ ~lib_location
    /\ "download-binaries" \in bfeatures
    /\ prebuilt_hash(target) # <<>>
    /\ lib_dir_exists
    /\ AfterLibDir
    /\ events' = IF "copy-dylibs" \in bfeatures
                 THEN Append(events, [op |-> "copy", arg |-> cache_dir]) ELSE events
    /\ UNCHANGED <<KEnv, lib_dir_exists, buf, link>>

\* fetch_file panics
FetchFails ==
    /\ kpc = "prepare"
    /\ ~lib_location
    /\ "download-binaries" \in bfeatures
    /\ prebuilt_hash(target) # <<>>
    /\ ~lib_dir_exists
    /\ server = Unreachable
    /\ events' = Append(events, [op |-> "fetch", arg |-> target])
    /\ kpc' = "panicked"
    /\ UNCHANGED <<KEnv, lib_dir_exists, buf, emitted, link>>

\* fetch_file returns the archive
Fetch ==
    /\ kpc = "prepare"
    /\ ~lib_location
    /\ "download-binaries" \in bfeatures
    /\ prebuilt_hash(target) # <<>>
    /\ ~lib_dir_exists
    /\ server # Unreachable
    /\ events' = Append(events, [op |-> "fetch", arg |-> target])
    /\ buf' = <<server>>
    /\ kpc' = "fetched"
    /\ UNCHANGED <<KEnv, lib_dir_exists, emitted, link>>

VerifyFails_extracts ==
    /\ kpc = "fetched"
    /\ ~verify_file(buf[1], prebuilt_hash(target))
    /\ events' = events \o <<[op |-> "verify", arg |-> FALSE], [op |-> "extract", arg |-> buf[1].name]>>
    /\ lib_dir_exists' = TRUE
    /\ kpc' = "panicked"
    /\ UNCHANGED <<KEnv, buf, emitted, link>>

\* assert!(verify_file(..), "hash does not match!") fails
VerifyFails ==
    /\ kpc = "fetched"
    /\ ~verify_file(buf[1], prebuilt_hash(target))
    /\ events' = Append(events, [op |-> "verify", arg |-> FALSE])
    /\ kpc' = "panicked"
    /\ UNCHANGED <<KEnv, lib_dir_exists, buf, emitted, link>>

\* the hash matches and extract_tgz panics ("Failed to extract .tgz file")
ExtractPanics ==
    /\ kpc = "fetched"
    /\ verify_file(buf[1], prebuilt_hash(target))
    /\ events' = events \o <<[op |-> "verify", arg |-> TRUE], [op |-> "extract", arg |-> buf[1].name]>>
    /\ kpc' = "panicked"
    /\ UNCHANGED <<KEnv, lib_dir_exists, buf, emitted, link>>

\* the hash matches: extract_tgz into the cache directory, then go on
VerifyExtract ==
    /\ kpc = "fetched"
    /\ verify_file(buf[1], prebuilt_hash(target))
    /\ lib_dir_exists' = TRUE
    /\ AfterLibDir
    /\ events' = events \o <<[op |-> "verify", arg |-> TRUE], [op |-> "extract", arg |-> buf[1].name]>>
                   \o (IF "copy-dylibs" \in bfeatures
                       THEN <<[op |-> "copy", arg |-> cache_dir]>> ELSE <<>>)
    /\ UNCHANGED <<KEnv, buf, link>>

----------------------------------------------------------------------------
\* Specifications

\* a dispatch pass; the probe is not running
PIdle ==
    /\ self_ep = "OneDNN"
    /\ native = [ok |-> FALSE, null |-> TRUE, arr |-> <<>>, count |-> 0]
    /\ ppc = "idle"
    /\ providers = "null"
    /\ num_providers = 0
    /\ i = 0
    /\ reads = <<>>
    /\ releases = 0
    /\ released_at = <<>>
    /\ presult = Pending

\* a probe; no dispatch pass is running
DIdle ==
    /\ iter = <<>>
    /\ execution_providers = <<>>
    /\ pc = "idle"
    /\ idx = 1
    /\ fallback_to_cpu = FALSE
    /\ log = <<>>
    /\ calls = <<>>
    /\ outcome = <<>>
    /\ registered = <<>>
    /\ result = Pending

Init == DInit /\ PIdle /\ OIdle /\ CIdle /\ RIdle /\ KIdle

Next ==
    \/ Collect /\ UNCHANGED <<pvars, ovars, cvars, rvars, kvars>>
    \/ RegisterOk /\ UNCHANGED <<pvars, ovars, cvars, rvars, kvars>>
    \/ RegisterFailFast /\ UNCHANGED <<pvars, ovars, cvars, rvars, kvars>>
    \/ RegisterFailLogged /\ UNCHANGED <<pvars, ovars, cvars, rvars, kvars>>
    \/ Finish /\ UNCHANGED <<pvars, ovars, cvars, rvars, kvars>>

Spec == Init /\ [][Next]_vars

ProbeInit == PInit /\ DIdle /\ OIdle /\ CIdle /\ RIdle /\ KIdle

ProbeNext ==
    \/ FillFails /\ UNCHANGED <<dvars, ovars, cvars, rvars, kvars>>
    \/ FillNull /\ UNCHANGED <<dvars, ovars, cvars, rvars, kvars>>
    \/ FillArray /\ UNCHANGED <<dvars, ovars, cvars, rvars, kvars>>
    \/ ScanExtractFails /\ UNCHANGED <<dvars, ovars, cvars, rvars, kvars>>
    \/ ScanMatch /\ UNCHANGED <<dvars, ovars, cvars, rvars, kvars>>
    \/ ScanNext /\ UNCHANGED <<dvars, ovars, cvars, rvars, kvars>>
    \/ ScanEnd /\ UNCHANGED <<dvars, ovars, cvars, rvars, kvars>>

ProbeSpec == ProbeInit /\ [][ProbeNext]_vars

OptionsInit == OInit /\ DIdle /\ PIdle /\ CIdle /\ RIdle /\ KIdle

OptionsNext ==
    \/ SetOk /\ UNCHANGED <<dvars, pvars, cvars, rvars, kvars>>
    \/ SetPanics /\ UNCHANGED <<dvars, pvars, cvars, rvars, kvars>>
    \/ ToFfi /\ UNCHANGED <<dvars, pvars, cvars, rvars, kvars>>

OptionsSpec == OptionsInit /\ [][OptionsNext]_vars

BuilderInit == CInit /\ DIdle /\ PIdle /\ OIdle /\ RIdle /\ KIdle

BuilderNext ==
    \/ WithArenaAllocator /\ UNCHANGED <<dvars, pvars, ovars, rvars, kvars>>
    \/ Build /\ UNCHANGED <<dvars, pvars, ovars, rvars, kvars>>
    \/ ErrorOnFailure /\ UNCHANGED <<dvars, pvars, ovars, rvars, kvars>>
    \/ FailSilently /\ UNCHANGED <<dvars, pvars, ovars, rvars, kvars>>

BuilderSpec == BuilderInit /\ [][BuilderNext]_vars

RegisterInit == RInit /\ DIdle /\ PIdle /\ OIdle /\ CIdle /\ KIdle

RegisterNext ==
    \/ RegNotEnabled /\ UNCHANGED <<dvars, pvars, ovars, cvars, kvars>>
    \/ RegResolveFails /\ UNCHANGED <<dvars, pvars, ovars, cvars, kvars>>
    \/ RegResolve /\ UNCHANGED <<dvars, pvars, ovars, cvars, kvars>>
    \/ RegCall /\ UNCHANGED <<dvars, pvars, ovars, cvars, kvars>>

RegisterSpec == RegisterInit /\ [][RegisterNext]_vars

NotBuild == <<dvars, pvars, ovars, cvars, rvars>>

BuildInit == KInit /\ DIdle /\ PIdle /\ OIdle /\ CIdle /\ RIdle

BuildNext ==
    \/ MainDocsRs /\ UNCHANGED NotBuild
    \/ MainNothing /\ UNCHANGED NotBuild
    \/ MainReal /\ UNCHANGED NotBuild
    \/ PrepareSystem /\ UNCHANGED NotBuild
    \/ PrepareSystemPanics /\ UNCHANGED NotBuild
    \/ PrepareNoBinaries /\ UNCHANGED NotBuild
    \/ PrepareNoTarget /\ UNCHANGED NotBuild
    \/ PrepareCached /\ UNCHANGED NotBuild
    \/ FetchFails /\ UNCHANGED NotBuild
    \/ Fetch /\ UNCHANGED NotBuild
    \/ VerifyFails /\ UNCHANGED NotBuild
    \/ ExtractPanics /\ UNCHANGED NotBuild
    \/ VerifyExtract /\ UNCHANGED NotBuild

BuildSpec == BuildInit /\ [][BuildNext]_vars

----------------------------------------------------------------------------
\* Properties of apply_execution_providers

\* the instance the k-th register call was made on
Attempted(k) == execution_providers[calls[k]]

\* the k-th register call failed with the 'feature not compiled in' error
NotCompiledAt(k) == outcome[k] = Err(NotRegisteredMsg(Attempted(k).inner))

FallbackRecords == {k \in 1..Len(log) : log[k].level = "warn" /\ log[k].msg = FallbackMsg}

RecordsAt(p) == {k \in 1..Len(log) : log[k].at = p}

NoSuccess == \A k \in 1..Len(outcome) : outcome[k] # Ok

\* C1: when the instance at a position has error_on_failure set and its
\* register call fails, the dispatcher has returned exactly that error and
\* register was invoked on no later position.
C1_FailFast ==
    \A k \in 1..Len(calls) :
        (Attempted(k).error_on_failure /\ outcome[k].tag = "err")
            => /\ pc = "done"
               /\ result = outcome[k]
               /\ k = Len(calls)
               /\ \A j \in 1..Len(calls) : calls[j] <= calls[k]

C1_Witness ==
    /\ pc = "done"
    /\ Len(execution_providers) = 3
    /\ calls = <<1, 2>>
    /\ outcome[1].tag = "err"
    /\ ~execution_providers[1].error_on_failure
    /\ execution_providers[2].error_on_failure
    /\ result = Err(StatusMsg(execution_providers[2].inner))

\* C2: a non-empty sequence in which every register call fails with the
\* 'feature not compiled in' error and no instance sets error_on_failure
\* returns success and logs exactly one fallback warning.
C2_AllNotCompiled ==
    (/\ pc = "done"
     /\ execution_providers # <<>>
     /\ Len(calls) = Len(execution_providers)
     /\ \A k \in 1..Len(calls) : NotCompiledAt(k) /\ ~Attempted(k).error_on_failure)
        => result = Ok /\ Cardinality(FallbackRecords) = 1

C2_Witness ==
    /\ pc = "done"
    /\ Len(execution_providers) = 3
    /\ Len(calls) = 3
    /\ \A k \in 1..3 : NotCompiledAt(k) /\ ~Attempted(k).error_on_failure
    /\ log[Len(log)].msg = FallbackMsg

\* C3: once the first instance has registered successfully no fallback
\* warning is logged, whatever the later instances do.
C3_FirstSucceeds ==
    (Len(outcome) >= 1 /\ outcome[1] = Ok) => FallbackRecords = {}

C3_Witness ==
    /\ pc = "done"
    /\ Len(outcome) = 3
    /\ outcome[1] = Ok
    /\ outcome[2].tag = "err"
    /\ outcome[3].tag = "err"
    /\ result.tag = "err"

\* C4: the empty sequence returns success with no register call and no log
\* record; the flag is seeded true exactly when the sequence is non-empty.
C4_EmptySequence ==
    /\ (pc = "done" /\ execution_providers = <<>>)
            => result = Ok /\ calls = <<>> /\ log = <<>>
    /\ (pc = "loop" /\ calls = <<>>)
            => (fallback_to_cpu <=> execution_providers # <<>>)

C4_Witness ==
    /\ pc = "done"
    /\ execution_providers = <<>>
    /\ result = Ok
    /\ ~fallback_to_cpu

\* C5 as stated: at the end of every pass the fallback decision has fired
\* exactly once if and only if no instance registered successfully.
C5_AsStated ==
    pc = "done" => (Cardinality(FallbackRecords) = 1 <=> NoSuccess)

\* C5 amended: the fallback decision fires at most once, and at the end of a
\* pass it has fired if and only if the sequence is non-empty, the pass was
\* not aborted by a fail-fast error and no instance registered successfully.
C5_Fallback ==
    /\ Cardinality(FallbackRecords) <= 1
    /\ pc # "done" => FallbackRecords = {}
    /\ pc = "done" =>
          (Cardinality(FallbackRecords) = 1
              <=> (execution_providers # <<>> /\ result = Ok /\ NoSuccess))

C5_Witness ==
    /\ pc = "done"
    /\ Len(outcome) = 2
    /\ NoSuccess
    /\ result.tag = "err"
    /\ FallbackRecords = {}

\* C6: an error is returned only for a failed instance with error_on_failure
\* set; a pass in which no failing instance has it set returns success.
C6_ErrorOnlyOnFailFast ==
    /\ result.tag = "err" =>
          \E k \in 1..Len(calls) :
              Attempted(k).error_on_failure /\ outcome[k].tag = "err" /\ result = outcome[k]
    /\ (pc = "done" /\ \A k \in 1..Len(calls) :
                          outcome[k].tag = "err" => ~Attempted(k).error_on_failure)
            => result = Ok

C6_Witness ==
    /\ pc = "done"
    /\ result = Ok
    /\ Len(outcome) = 3
    /\ outcome[1] = Err(StatusMsg(Attempted(1).inner))
    /\ outcome[2] = Err(SymbolMsg(Attempted(2).inner))
    /\ outcome[3] = Err(NotRegisteredMsg(Attempted(3).inner))

\* the level the record of the k-th attempt is to have
ExpectedLevel(k) ==
    IF outcome[k] = Ok THEN "info"
    ELSE IF NotCompiledAt(k)
         THEN IF supported_by_platform(Attempted(k).inner) THEN "warn" ELSE "debug"
         ELSE "error"

\* C10: every instance attempted without error_on_failure leaves exactly one
\* log record, of the level its outcome calls for, and the loop goes on to
\* the next instance; [A fails not-compiled, B succeeds] returns success with
\* one debug/warning record for A, one info record for B and no fallback
\* warning.
C10_OneRecordPerAttempt ==
    /\ \A k \in 1..Len(calls) :
          ~Attempted(k).error_on_failure =>
              /\ Cardinality(RecordsAt(calls[k])) = 1
              /\ \A r \in RecordsAt(calls[k]) : log[r].level = ExpectedLevel(k)
              /\ idx > calls[k]
              /\ (pc = "done" /\ k = Len(calls))
                    => (calls[k] = Len(execution_providers) /\ result = Ok)
    /\ (/\ pc = "done"
        /\ Len(execution_providers) = 2
        /\ \A p \in 1..2 : ~execution_providers[p].error_on_failure
        /\ Len(outcome) = 2
        /\ NotCompiledAt(1)
        /\ outcome[2] = Ok)
            => /\ result = Ok
               /\ Len(log) = 2
               /\ log[1].at = 1 /\ log[1].level \in {"debug", "warn"}
               /\ log[2].at = 2 /\ log[2].level = "info"
               /\ FallbackRecords = {}

C10_Witness ==
    /\ pc = "done"
    /\ Len(execution_providers) = 2
    /\ \A p \in 1..2 : ~execution_providers[p].error_on_failure
    /\ Len(outcome) = 2
    /\ NotCompiledAt(1)
    /\ outcome[2] = Ok
    /\ log[1].level = "debug"

----------------------------------------------------------------------------
\* Properties of is_available

Extractable(p) == \A k \in 1..Len(p) : p[k] # BadByte

\* C7 as stated: ReleaseAvailableProviders has been invoked exactly once when
\* is_available returns after a successful fill, the null result pointer
\* included, and not at all after a failed fill.
C7_AsStated ==
    ppc = "done" => releases = (IF native.ok THEN 1 ELSE 0)

\* C7 amended: ReleaseAvailableProviders is never invoked before the return
\* and has been invoked exactly once when is_available returns after a fill
\* that succeeded and produced a non-null array (identifier found, not
\* found, or an entry failing extraction); it is not invoked when the fill
\* fails or leaves the pointer null.
C7_ReleaseOnce ==
    /\ ppc # "done" => releases = 0
    /\ ppc = "done" => releases = (IF native.ok /\ ~native.null THEN 1 ELSE 0)

C7_Witness ==
    /\ ppc = "done"
    /\ presult.tag = "err"
    /\ native.ok
    /\ Len(reads) = 2
    /\ Len(native.arr) = 3
    /\ releases = 1

\* C8: a successful fill that yields a null pointer (whatever the count) or
\* an empty array makes is_available return Ok(false).
C8_NullOrEmpty ==
    (ppc = "done" /\ native.ok /\ (native.null \/ native.count = 0))
        => presult = OkBool(FALSE)

C8_Witness ==
    /\ ppc = "done"
    /\ native.ok
    /\ native.null
    /\ num_providers = MaxProviders
    /\ presult = OkBool(FALSE)

\* C9: after a successful fill whose entries are all extractable,
\* is_available returns Ok(true) if the identifier equals one of the entries
\* and Ok(false) if not.
C9_Membership ==
    (ppc = "done" /\ native.ok /\ \A k \in 1..Len(native.arr) : Extractable(native.arr[k]))
        => presult = OkBool(\E k \in 1..Len(native.arr) : native.arr[k] = as_str(self_ep))

C9_Witness ==
    /\ ppc = "done"
    /\ self_ep = "OneDNN"
    /\ native.arr = <<<<"Dnnl">>, <<"CPU", "ExecutionProvider">>, <<"CoreML", "ExecutionProvider">>>>
    /\ presult = OkBool(FALSE)
    /\ reads = <<0, 1, 2>>

----------------------------------------------------------------------------
\* Further properties of apply_execution_providers

\* the k-th register call failed because the entry point was not found
SymbolFailedAt(k) == outcome[k] = Err(SymbolMsg(Attempted(k).inner))

\* C11: a registration that fails on symbol resolution is handled the way a
\* 'feature not compiled in' failure is: the error is returned under
\* error_on_failure, and otherwise one warning (platform supported) or debug
\* (not supported) record is logged and the loop goes on.
C11_SymbolAsNotCompiled ==
    \A k \in 1..Len(calls) :
        SymbolFailedAt(k) =>
            IF Attempted(k).error_on_failure
            THEN pc = "done" /\ result = outcome[k]
            ELSE /\ idx > calls[k]
                 /\ Cardinality(RecordsAt(calls[k])) = 1
                 /\ \A r \in RecordsAt(calls[k]) :
                       log[r].level = (IF supported_by_platform(Attempted(k).inner)
                                       THEN "warn" ELSE "debug")

RECURSIVE SuccessfulKinds(_)
\* the providers of the register calls that returned Ok, in call order
SuccessfulKinds(n) ==
    IF n = 0 THEN <<>>
    ELSE IF outcome[n] = Ok
         THEN Append(SuccessfulKinds(n - 1), Attempted(n).inner)
         ELSE SuccessfulKinds(n - 1)

\* C16: register is invoked on positions 1, 2, .. in that order, once each;
\* the attempted positions are a prefix of the sequence, all of it when the
\* pass returns Ok and up to the failing instance when it returns an error;
\* the session builder holds exactly the providers of the sequence whose
\* register succeeded, and no CPU provider added by the dispatcher.
C16_OrderedPrefix ==
    /\ Len(calls) <= Len(execution_providers)
    /\ \A k \in 1..Len(calls) : calls[k] = k
    /\ Len(outcome) = Len(calls)
    /\ (pc = "done" /\ result = Ok) => Len(calls) = Len(execution_providers)
    /\ (pc = "done" /\ result.tag = "err") =>
          /\ Len(calls) >= 1
          /\ Attempted(Len(calls)).error_on_failure
          /\ outcome[Len(calls)].tag = "err"
    /\ registered = SuccessfulKinds(Len(calls))

C16_Witness ==
    /\ pc = "done"
    /\ result = Ok
    /\ calls = <<1, 2, 3>>
    /\ NoSuccess
    /\ registered = <<>>
    /\ Cardinality(FallbackRecords) = 1

\* C17: no register call is made while the producer still holds elements:
\* the whole input is collected first, also when the first instance then
\* aborts the pass.
C17_CollectedFirst ==
    /\ calls # <<>> => iter = <<>>
    /\ pc \in {"loop", "done"} => iter = <<>>
    /\ pc = "start" => (calls = <<>> /\ execution_providers = <<>>)

C17_Witness ==
    /\ pc = "done"
    /\ result.tag = "err"
    /\ calls = <<1>>
    /\ Len(execution_providers) = 3
    /\ iter = <<>>

\* the pass runs on: the calling thread executes the function to its return
\* and every register call returns
LiveSpec == Init /\ [][Next]_vars /\ WF_vars(Next)

Registered(p) == \E r \in RecordsAt(p) : log[r].level = "info"

Skipped(p) == \E r \in RecordsAt(p) : log[r].level \in {"warn", "debug", "error"}

Failed(p) == RecordsAt(p) = {} /\ p = Len(calls) /\ result.tag = "err" /\ result = outcome[p]

\* C18: every pass reaches its terminal state; there every attempted instance
\* is in exactly one of Registered, Skipped and Failed, every other instance
\* is still Unregistered, and nothing (no register call, no log record, no
\* instance state) changes afterwards.
C18_Resolves ==
    /\ <>(pc = "done")
    /\ [](pc = "done" =>
            /\ \A p \in 1..Len(calls) :
                  /\ Registered(p) \/ Skipped(p) \/ Failed(p)
                  /\ ~(Registered(p) /\ Skipped(p))
                  /\ ~(Registered(p) /\ Failed(p))
                  /\ ~(Skipped(p) /\ Failed(p))
            /\ \A p \in (Len(calls) + 1)..Len(execution_providers) : RecordsAt(p) = {}
            /\ (result = Ok \/ Failed(Len(calls))))
    /\ [][pc = "done" => UNCHANGED vars]_vars

C18_Witness ==
    /\ pc = "done"
    /\ Len(calls) = 3
    /\ Registered(1)
    /\ Skipped(2)
    /\ Failed(3)

----------------------------------------------------------------------------
\* Properties of ExecutionProviderOptions

KeysSet == {sets[j].key : j \in 1..Len(sets)}

\* the value of the latest set call made with key k
LastValue(k) ==
    LET last == CHOOSE j \in 1..Len(sets) :
                    sets[j].key = k /\ \A h \in (j + 1)..Len(sets) : sets[h].key # k
    IN sets[last].value

HasNul(bytes) == \E k \in 1..Len(bytes) : bytes[k] = Nul

\* C12: the bag holds one entry per key that was set, with the value of the
\* latest set of that key (a later set of another key leaves it alone), and
\* a foreign view lists every key once.
C12_LastWriteWins ==
    /\ DOMAIN bag = KeysSet
    /\ \A k \in KeysSet : bag[k] = LastValue(k)
    /\ \A f \in {ffi[j] : j \in 1..Len(ffi)} :
          \A k \in KeysSet : Cardinality({j \in 1..Len(f.key_ptrs) : f.key_ptrs[j] = k}) = 1

C12_Witness ==
    /\ Len(sets) = 3
    /\ sets[1].key # sets[2].key
    /\ sets[2].key = sets[3].key
    /\ sets[2].value # sets[3].value
    /\ bag[sets[3].key] = sets[3].value
    /\ bag[sets[1].key] = sets[1].value
    /\ Len(ffi) = 1
    /\ ffi_len(ffi[1]) = 2

\* C13: a foreign view has as many value pointers as key pointers, len() is
\* the number of distinct keys set so far, and the value at each index is
\* the current value of the key at that index.
C13_FfiParallel ==
    \A f \in {ffi[j] : j \in 1..Len(ffi)} :
        /\ Len(f.key_ptrs) = Len(f.value_ptrs)
        /\ ffi_len(f) = Cardinality(KeysSet)
        /\ \A j \in 1..Len(f.key_ptrs) :
              f.key_ptrs[j] \in KeysSet /\ f.value_ptrs[j] = LastValue(f.key_ptrs[j])

C13_Witness ==
    /\ Len(sets) = 3
    /\ Cardinality(KeysSet) = 2
    /\ Len(ffi) = 1
    /\ ffi[1].key_ptrs = <<<<"device_id">>, <<"arena_extend_strategy">>>>
    /\ ffi[1].value_ptrs = <<<<"1">>, <<"0">>>>

\* C14: set panics exactly when its key or value holds a nul byte, and the
\* panicking call leaves the bag as it was; no entry of the bag ever holds a
\* nul byte.
C14_NulPanics ==
    /\ [](\A c \in {last_call[j] : j \in 1..Len(last_call)} :
              (HasNul(c.key) \/ HasNul(c.value)) <=> opc = "panicked")
    /\ [](\A k \in DOMAIN bag : ~HasNul(k) /\ ~HasNul(bag[k]))
    /\ [][opc' = "panicked" => (bag' = bag /\ sets' = sets)]_vars

C14_Witness ==
    /\ opc = "panicked"
    /\ Len(sets) = 2
    /\ last_call[1].key = sets[1].key
    /\ HasNul(last_call[1].value)
    /\ bag[sets[1].key] = sets[1].value

----------------------------------------------------------------------------
\* Properties of the builders

\* C15: a dispatch is built with error_on_failure = false; afterwards the
\* flag is true exactly when the latest builder call was error_on_failure(),
\* and the wrapped provider is the one handed to build.
C15_LastCallWins ==
    /\ (cpc = "dispatch" /\ bcalls = <<>>) => ~disp[1].error_on_failure
    /\ (cpc = "dispatch" /\ bcalls # <<>>) =>
          (disp[1].error_on_failure <=> bcalls[Len(bcalls)] = "error_on_failure")
    /\ cpc = "dispatch" => disp[1].inner = ep

C15_Witness ==
    /\ cpc = "dispatch"
    /\ bcalls = <<"error_on_failure", "fail_silently", "fail_silently">>
    /\ ~disp[1].error_on_failure
    /\ disp[1].inner.use_arena

----------------------------------------------------------------------------
\* Properties of OneDNNExecutionProvider::register

DnnlAppend ==
    [symbol |-> "OrtSessionOptionsAppendExecutionProvider_Dnnl", use_arena |-> IF r_ep.use_arena THEN 1 ELSE 0]

\* C19: register returns Ok or an Error of the crate, never the foreign
\* status; Ok exactly when the Dnnl entry point was called and returned the
\* null (success) status; a non-null status comes back as the
\* ExecutionProvider error with its message; with neither load-dynamic nor
\* onednn enabled it returns ExecutionProviderNotRegistered carrying
\* "DnnlExecutionProvider" and makes no foreign call.
C19_RegisterResult ==
    /\ Len(fcalls) <= 1
    /\ rpc # "done" => (fcalls = <<>> /\ rresult = Pending)
    /\ rpc = "done" =>
          /\ rresult = Ok
                \/ /\ rresult.tag = "err"
                   /\ rresult.variant \in {"ExecutionProviderNotRegistered", "ExecutionProvider", "Msg"}
          /\ rresult = Ok <=> (fcalls = <<DnnlAppend>> /\ status.null)
          /\ (fcalls # <<>> /\ ~status.null) =>
                rresult = [tag |-> "err", variant |-> "ExecutionProvider", msg |-> status.msg]
          /\ features = {} =>
                /\ fcalls = <<>>
                /\ rresult = [tag |-> "err", variant |-> "ExecutionProviderNotRegistered",
                              msg |-> <<"Dnnl", "ExecutionProvider">>]
          /\ fcalls # <<>> => (features # {} /\ ("load-dynamic" \in features => symbol_found))

C19_Witness ==
    /\ rpc = "done"
    /\ features = {"load-dynamic"}
    /\ fcalls = <<[symbol |-> "OrtSessionOptionsAppendExecutionProvider_Dnnl", use_arena |-> 1]>>
    /\ ~status.null
    /\ rresult.variant = "ExecutionProvider"

----------------------------------------------------------------------------
\* Properties of the build script

\* the leading two bytes of the SHA-256 digest pinned for a target
PinnedDigest(t) ==
    IF t = "x86_64-unknown-linux-gnu" THEN <<131, 33>>
    ELSE IF t = "aarch64-apple-darwin" THEN <<147, 145>>
    ELSE IF t = "x86_64-pc-windows-msvc" THEN <<61, 209>>
    ELSE <<>>

EventOps == [j \in 1..Len(events) |-> events[j].op]

\* C20: on the download path an archive is extracted only right after its
\* digest was found equal to the hash pinned for the target; a download with
\* another digest panics with nothing extracted; and nothing is fetched when
\* the library directory exists, nor outside the download path.
C20_VerifyBeforeExtract ==
    /\ [](\A j \in 1..Len(events) :
            events[j].op = "extract" =>
                /\ j >= 3
                /\ events[j - 2].op = "fetch"
                /\ events[j - 1] = [op |-> "verify", arg |-> TRUE]
                /\ buf # <<>>
                /\ buf[1].name = events[j].arg
                /\ buf[1].digest = PinnedDigest(target))
    /\ []((buf # <<>> /\ buf[1].digest # PinnedDigest(target) /\ kpc # "fetched") =>
            /\ kpc = "panicked"
            /\ \A j \in 1..Len(events) : events[j].op # "extract"
            /\ ~lib_dir_exists)
    /\ [](\A j \in 1..Len(events) :
            events[j].op = "fetch" => (~lib_location /\ "download-binaries" \in bfeatures))
    /\ [][lib_dir_exists => \A j \in 1..Len(events') : events'[j].op = "fetch" => j <= Len(events)]_vars

C20_Witness ==
    /\ kpc = "done"
    /\ "load-dynamic" \in bfeatures
    /\ target = "aarch64-apple-darwin"
    /\ EventOps = <<"fetch", "verify", "extract", "copy">>
    /\ events[3].arg = "onnxruntime-osx-arm64-1.17.0.tgz"
    /\ lib_dir_exists

----------------------------------------------------------------------------
\* Properties of the build script under load-dynamic

LinkerDirectives == {"rustc-link-lib", "rustc-link-search"}

LinkerLines == {j \in 1..Len(emitted) : emitted[j].directive \in LinkerDirectives}

\* C21: with the load-dynamic feature enabled the build script emits no
\* cargo:rustc-link-lib and no cargo:rustc-link-search line; with DOCS_RS set
\* it emits nothing and performs no file operation
C21_NoLinkerDirective ==
    /\ "load-dynamic" \in bfeatures => LinkerLines = {}
    /\ docs_rs => emitted = <<>> /\ events = <<>>

\* the parts of C21 about which step runs: under load-dynamic real_main is
\* entered only with download-binaries on and ORT_LIB_LOCATION unset, and
\* the only linker lines are rustc-link-lib lines of the link prerequisites,
\* and with DOCS_RS set nothing is emitted, fetched, extracted or copied
C21_MainStepGuard ==
    /\ ("load-dynamic" \in bfeatures /\ kpc \notin {"main", "done"})
           => ("download-binaries" \in bfeatures /\ ~lib_location /\ ~link)
    /\ ("load-dynamic" \in bfeatures /\ emitted # <<>>)
           => ("download-binaries" \in bfeatures /\ ~lib_location)
    /\ "load-dynamic" \in bfeatures
           => \A j \in LinkerLines :
                  /\ emitted[j].directive = "rustc-link-lib"
                  /\ emitted[j].arg # "onnxruntime"
    /\ docs_rs => emitted = <<>> /\ events = <<>> /\ kpc \in {"main", "done"}

----------------------------------------------------------------------------
\* Properties of the fallback flag and of a fail-fast abort

\* the flag has been cleared and the pass is past the collect step
FlagCleared == pc # "start" /\ ~fallback_to_cpu

\* C22: from the collect step on, fallback_to_cpu is true exactly when the
\* collected sequence is non-empty and no register call made so far returned
\* Ok; and once the flag is false no later step sets it again
C22_FlagTracksSuccess ==
    /\ [](pc # "start" => (fallback_to_cpu <=> (execution_providers # <<>> /\ NoSuccess)))
    /\ [][FlagCleared => ~fallback_to_cpu']_vars

\* a success cleared the flag, a later instance failed, the flag is still clear
C22_Witness ==
    /\ Len(outcome) >= 2
    /\ outcome[1] = Ok
    /\ outcome[Len(outcome)].tag = "err"
    /\ execution_providers # <<>>
    /\ ~fallback_to_cpu

\* the pass has returned the error of a fail-fast instance
Aborted == pc = "done" /\ result.tag = "err"

\* C23: when the pass aborts with a fail-fast error, the providers registered
\* earlier in the pass are still on the session configuration (the aborting
\* step leaves it as it was), the failing instance has no log record, and no
\* fallback-to-CPU warning is logged, also when nothing had registered
C23_AbortKeepsRegistrations ==
    /\ [](Aborted =>
            /\ registered = SuccessfulKinds(Len(calls) - 1)
            /\ RecordsAt(calls[Len(calls)]) = {}
            /\ Len(log) = Len(calls) - 1
            /\ FallbackRecords = {})
    /\ [][(~Aborted /\ Aborted') => (registered' = registered /\ log' = log)]_vars

\* an abort after an earlier instance of the same pass had registered
C23_Witness ==
    /\ Aborted
    /\ Len(calls) >= 2
    /\ registered # <<>>
    /\ fallback_to_cpu = FALSE

----------------------------------------------------------------------------
\* Order of the fallback warning

\* C24: the fallback-to-CPU warning is logged at most once in a pass; when it
\* is logged it is the last record, register has been attempted on every
\* instance of the sequence, every instance has its record before it, and
\* no call and no record follows it
C24_FallbackLast ==
    /\ [](/\ Cardinality(FallbackRecords) <= 1
          /\ FallbackRecords # {} =>
                /\ FallbackRecords = {Len(log)}
                /\ Len(calls) = Len(execution_providers)
                /\ \A p \in 1..Len(execution_providers) :
                      \E r \in RecordsAt(p) : r < Len(log)
                /\ pc = "done")
    /\ [][FallbackRecords # {} => UNCHANGED <<log, calls, outcome, registered>>]_vars

\* the warning was logged at the end of a pass of several instances
C24_Witness ==
    /\ FallbackRecords # {}
    /\ Len(execution_providers) >= 2
    /\ Len(log) = Len(execution_providers) + 1
    /\ result = Ok

----------------------------------------------------------------------------
\* Scan order of is_available

\* the entry at position k of the reported array ends the scan
Stops(k) == ~Extractable(native.arr[k]) \/ native.arr[k] = as_str(self_ep)

\* position of the first entry that ends the scan, 0 if there is none
FirstStop ==
    IF \E k \in 1..Len(native.arr) : Stops(k)
    THEN CHOOSE k \in 1..Len(native.arr) :
            Stops(k) /\ \A j \in 1..(k - 1) : ~Stops(j)
    ELSE 0

\* C25: the entries are read in array order, none past the first entry
\* that equals the identifier or fails extraction; is_available returns
\* Ok(true) when that entry equals the identifier, the extraction error when
\* it fails extraction (also with the identifier further on in the array),
\* and Ok(false) when no entry ends the scan; every entry read was read
\* before the release call
C25_StopsAtFirst ==
    /\ \A k \in 1..Len(reads) : reads[k] = k - 1
    /\ Len(reads) <= (IF FirstStop = 0 THEN Len(native.arr) ELSE FirstStop)
    /\ (ppc = "done" /\ native.ok /\ ~native.null) =>
          IF FirstStop = 0
          THEN Len(reads) = Len(native.arr) /\ presult = OkBool(FALSE)
          ELSE /\ Len(reads) = FirstStop
               /\ IF Extractable(native.arr[FirstStop])
                  THEN presult = OkBool(TRUE)
                  ELSE presult.tag = "err" /\ presult = char_p_to_string(native.arr[FirstStop])
    /\ \A k \in 1..Len(released_at) : released_at[k] = Len(reads)

\* an unextractable entry stands before the identifier: an error is returned
C25_Witness ==
    /\ ppc = "done"
    /\ self_ep = "OneDNN"
    /\ native.arr = <<<<"CPU", "ExecutionProvider">>, <<"Dnnl", BadByte>>, as_str("OneDNN")>>
    /\ reads = <<0, 1>>
    /\ released_at = <<2>>
    /\ presult.tag = "err"

====
